---- MODULE Spec2Model ----
(***************************************************************************)
(* DCS (Digital Coded Squelch) decoder: the bit-boundary pipeline of       *)
(* dcs_decoder_process_samples (sliding windows, Golay (23,12) decode,     *)
(* recognized-code validation, confirmation layer, callback), driven by a  *)
(* transmitter that repeats 23-bit frames.                                  *)
(***************************************************************************)
EXTENDS Integers, Sequences, FiniteSets, TLC

(***************************************************************************)
(* Bounds of the exploration.                                              *)
(***************************************************************************)
\* number of bit boundaries fed to a decoder in one run
MaxBits == 47

(***************************************************************************)
(* Unsigned arithmetic of the C source.  Every uint32_t the decoder holds  *)
(* stays below 2^24 (windows are masked to 23 bits before and after each   *)
(* shift), so shifts never reach bit 31; the only value with high bits set *)
(* is the sentinel 0xFFFFFFFF, written here as the same bit pattern read   *)
(* as a signed int.                                                        *)
(***************************************************************************)
MASK23 == 8388607

RECURSIVE BitXor(_, _)
BitXor(a, b) ==
    IF a = 0 THEN b
    ELSE IF b = 0 THEN a
    ELSE ((a + b) % 2) + 2 * BitXor(a \div 2, b \div 2)

RECURSIVE BitAnd(_, _)
BitAnd(a, b) ==
    IF a = 0 \/ b = 0 THEN 0
    ELSE ((a % 2) * (b % 2)) + 2 * BitAnd(a \div 2, b \div 2)

RECURSIVE BitOr(_, _)
BitOr(a, b) ==
    IF a = 0 THEN b
    ELSE IF b = 0 THEN a
    ELSE (IF a % 2 = 1 \/ b % 2 = 1 THEN 1 ELSE 0) + 2 * BitOr(a \div 2, b \div 2)

Shl(a, k) == a * (2 ^ k)
Shr(a, k) == a \div (2 ^ k)
\* (~a) & 0x7FFFFFU
NotMask23(a) == MASK23 - (a % (MASK23 + 1))

(***************************************************************************)
(* Recognized codes.                                                       *)
(***************************************************************************)
DCS_VALID_CODES ==
    << 19,  21,  22,  25,  26,  30,  35,  39,  41,  43,  44,  53,
       57,  58,  59,  60,
       76,  77,  78,  82,  85,  89,  90,  92,  99, 101, 106, 109,
      110, 114, 117, 122, 124,
      133, 138, 140, 147, 149, 150, 163, 164, 165, 166, 169, 170,
      173, 177, 179, 181, 182, 185, 188,
      198, 201, 205, 213, 217, 218, 227, 230, 233, 238, 244, 245, 249,
      265, 266, 267, 275, 281, 282, 293, 294, 298, 300, 301, 306, 308,
      309, 310,
      323, 326, 334, 339, 342, 346, 358, 373,
      390, 394, 404, 407, 409, 410, 428, 434, 436,
      451, 458, 467, 473, 474, 476, 483, 492 >>

DCS_NUM_CODES == Len(DCS_VALID_CODES)

\* is_valid_dcs_code scanning one element past the table, where it reads 0
is_valid_dcs_code_OnePastEnd(code) ==
    IF \E i \in 1..(DCS_NUM_CODES + 1) :
          (IF i <= DCS_NUM_CODES THEN DCS_VALID_CODES[i] ELSE 0) = code % 65536
    THEN 1 ELSE 0

\* is_valid_dcs_code with the scan starting at index 1
is_valid_dcs_code_SkipFirst(code) ==
    IF \E i \in 2..DCS_NUM_CODES : DCS_VALID_CODES[i] = code % 65536
    THEN 1 ELSE 0

is_valid_dcs_code(code) ==
    IF \E i \in 1..DCS_NUM_CODES : DCS_VALID_CODES[i] = code % 65536
    THEN 1 ELSE 0

(***************************************************************************)
(* Golay (23,12).                                                          *)
(***************************************************************************)
GOLAY_POLY == 3189
GOLAY_SYN_INVALID == -1

\* the division loop stopping one position early (i > 11 instead of i >= 11)
RECURSIVE golay_syndrome_loop_StopsEarly(_, _)
golay_syndrome_loop_StopsEarly(reg, i) ==
    IF i < 12 THEN reg
    ELSE golay_syndrome_loop_StopsEarly(
             IF Shr(reg, i) % 2 = 1
             THEN BitXor(reg, Shl(GOLAY_POLY, i - 11))
             ELSE reg,
             i - 1)

RECURSIVE golay_syndrome_loop(_, _)
golay_syndrome_loop(reg, i) ==
    IF i < 11 THEN reg
    ELSE golay_syndrome_loop(
             IF Shr(reg, i) % 2 = 1
             THEN BitXor(reg, Shl(GOLAY_POLY, i - 11))
             ELSE reg,
             i - 1)

golay_syndrome(word) == golay_syndrome_loop(word % (MASK23 + 1), 22) % 2048

\* The error patterns in the order the loops of build_syndrome_table visit
\* them: the zero pattern (stored before the loops), then i ascending, then
\* (i, j) with i < j, then (i, j, k) with i < j < k.
RECURSIVE ConcatFrom(_, _, _)
ConcatFrom(seqOf(_), lo, hi) ==
    IF lo > hi THEN << >> ELSE seqOf(lo) \o ConcatFrom(seqOf, lo + 1, hi)

Errors1 == [i1 \in 1..23 |-> Shl(1, i1 - 1)]

Errors2From(i) == [j1 \in 1..(22 - i) |-> BitOr(Shl(1, i), Shl(1, i + j1))]
Errors2 == ConcatFrom(Errors2From, 0, 22)

\* the innermost loop with bound k < 22
Errors3FromIJ_ShortLoop(i, j) ==
    [k1 \in 1..(21 - j) |-> BitOr(BitOr(Shl(1, i), Shl(1, j)), Shl(1, j + k1))]

Errors3FromIJ(i, j) ==
    [k1 \in 1..(22 - j) |-> BitOr(BitOr(Shl(1, i), Shl(1, j)), Shl(1, j + k1))]
Errors3From(i) ==
    LET row(j) == Errors3FromIJ(i, j) IN ConcatFrom(row, i + 1, 22)
Errors3 == ConcatFrom(Errors3From, 0, 22)

ErrorPatterns == Errors1 \o Errors2 \o Errors3

\* if (tbl[s] == GOLAY_SYN_INVALID) tbl[s] = e;
StoreIfInvalid(tbl, e) ==
    LET s == golay_syndrome(e)
    IN  IF tbl[s] = GOLAY_SYN_INVALID THEN [tbl EXCEPT ![s] = e] ELSE tbl

\* the guarded stores for patterns lo..hi, applied in order (the range is
\* halved so that each half's table is a value before the next store reads it)
RECURSIVE StoreRange(_, _, _)
StoreRange(tbl, lo, hi) ==
    IF lo >= hi THEN StoreIfInvalid(tbl, ErrorPatterns[lo])
    ELSE LET mid == (lo + hi) \div 2
         IN  CHOOSE r \in { StoreRange(t, mid + 1, hi) :
                              t \in { StoreRange(tbl, lo, mid) } } : TRUE

build_syndrome_table ==
    LET invalid == [s \in 0..2047 |-> GOLAY_SYN_INVALID]
        zero == [invalid EXCEPT ![0] = 0]
    IN  StoreRange(zero, 1, Len(ErrorPatterns))

NoDecode == [found |-> 0, code |-> 0, inverted |-> 0]

\* try_decode_word without the recognized-code lookup
try_decode_word_NoTableCheck(syn_tbl, word, polarity_inv) ==
    LET s == golay_syndrome(word)
    IN  IF s < 2048 /\ syn_tbl[s] # GOLAY_SYN_INVALID
        THEN LET corrected == BitXor(word, syn_tbl[s])
                 data == Shr(corrected, 11) % 4096
             IN  IF BitAnd(data, 3584) = 0
                 THEN [found |-> 1, code |-> data, inverted |-> polarity_inv]
                 ELSE NoDecode
        ELSE NoDecode

try_decode_word(syn_tbl, word, polarity_inv) ==
    LET s == golay_syndrome(word)
    IN  IF s < 2048 /\ syn_tbl[s] # GOLAY_SYN_INVALID
        THEN LET corrected == BitXor(word, syn_tbl[s])
                 data == Shr(corrected, 11) % 4096
             IN  IF BitAnd(data, 3584) = 0 /\ is_valid_dcs_code(data) = 1
                 THEN [found |-> 1, code |-> data, inverted |-> polarity_inv]
                 ELSE NoDecode
        ELSE NoDecode


(***************************************************************************)
(* Decoder state (struct dcs_decoder) and construction.                    *)
(***************************************************************************)
NULL == "NULL"
SINK == "sink"

dcs_decoder_new ==
    [ window_a      |-> 0,
      window_b      |-> 0,
      last_code     |-> -1,
      last_inverted |-> 0,
      confirm_count |-> 0 ]

(***************************************************************************)
(* One bit boundary of dcs_decoder_process_samples.                        *)
(***************************************************************************)
\* the windows with window_b masked one bit too wide
ShiftWindows_Mask24(d, bit) ==
    [d EXCEPT
       !.window_a = BitOr(Shr(d.window_a, 1), Shl(bit, 22)),
       !.window_b = BitOr(Shl(d.window_b, 1), bit) % (2 * (MASK23 + 1))]

\* both sliding windows take the new bit
ShiftWindows(d, bit) ==
    [d EXCEPT
       !.window_a = BitOr(Shr(d.window_a, 1), Shl(bit, 22)),
       !.window_b = BitOr(Shl(d.window_b, 1), bit) % (MASK23 + 1)]

\* the four candidates in the order the source tries them; first hit wins
DecodeWindows(wa, wb) ==
    LET r1 == try_decode_word(build_syndrome_table, wa, 0)
    IN  IF r1.found = 1 THEN r1
        ELSE LET r2 == try_decode_word(build_syndrome_table, NotMask23(wa), 1)
             IN  IF r2.found = 1 THEN r2
                 ELSE LET r3 == try_decode_word(build_syndrome_table, wb, 0)
                      IN  IF r3.found = 1 THEN r3
                          ELSE try_decode_word(build_syndrome_table, NotMask23(wb), 1)

\* Confirm with the callback also fired when a new pair is first stored
Confirm_FireOnFirstDecode(d, r, cb) ==
    IF r.found = 1
    THEN IF r.code = d.last_code /\ r.inverted = d.last_inverted
         THEN LET c == d.confirm_count + 1
              IN  [ dec   |-> [d EXCEPT !.confirm_count = c],
                    calls |-> IF c >= 2 /\ cb # NULL
                              THEN << <<r.code, r.inverted>> >> ELSE << >> ]
         ELSE [ dec   |-> [d EXCEPT !.last_code = r.code,
                                    !.last_inverted = r.inverted,
                                    !.confirm_count = 1],
                calls |-> IF cb # NULL
                          THEN << <<r.code, r.inverted>> >> ELSE << >> ]
    ELSE [ dec   |-> IF d.confirm_count > 0
                     THEN [d EXCEPT !.confirm_count = d.confirm_count - 1]
                     ELSE d,
           calls |-> << >> ]

\* Confirm with the decrement on a missed boundary left unguarded
Confirm_DecayBelowZero(d, r, cb) ==
    IF r.found = 1
    THEN IF r.code = d.last_code /\ r.inverted = d.last_inverted
         THEN LET c == d.confirm_count + 1
              IN  [ dec   |-> [d EXCEPT !.confirm_count = c],
                    calls |-> IF c >= 2 /\ cb # NULL
                              THEN << <<r.code, r.inverted>> >> ELSE << >> ]
         ELSE [ dec   |-> [d EXCEPT !.last_code = r.code,
                                    !.last_inverted = r.inverted,
                                    !.confirm_count = 1],
                calls |-> << >> ]
    ELSE [ dec   |-> [d EXCEPT !.confirm_count = d.confirm_count - 1],
           calls |-> << >> ]

\* Confirm with a missed boundary leaving the counter as it is
Confirm_NoDecay(d, r, cb) ==
    IF r.found = 1
    THEN IF r.code = d.last_code /\ r.inverted = d.last_inverted
         THEN LET c == d.confirm_count + 1
              IN  [ dec   |-> [d EXCEPT !.confirm_count = c],
                    calls |-> IF c >= 2 /\ cb # NULL
                              THEN << <<r.code, r.inverted>> >> ELSE << >> ]
         ELSE [ dec   |-> [d EXCEPT !.last_code = r.code,
                                    !.last_inverted = r.inverted,
                                    !.confirm_count = 1],
                calls |-> << >> ]
    ELSE [ dec |-> d, calls |-> << >> ]

\* Confirm with the steady-state branch firing from the second match on, so
\* that both branches fire at the first confirmation
Confirm_BothBranchesFire(d, r, cb) ==
    IF r.found = 1
    THEN IF r.code = d.last_code /\ r.inverted = d.last_inverted
         THEN LET c == d.confirm_count + 1
              IN  [ dec   |-> [d EXCEPT !.confirm_count = c],
                    calls |-> (IF c = 2 /\ cb # NULL
                               THEN << <<r.code, r.inverted>> >> ELSE << >>)
                              \o
                              (IF c >= 2 /\ cb # NULL
                               THEN << <<r.code, r.inverted>> >> ELSE << >>) ]
         ELSE [ dec   |-> [d EXCEPT !.last_code = r.code,
                                    !.last_inverted = r.inverted,
                                    !.confirm_count = 1],
                calls |-> << >> ]
    ELSE [ dec   |-> IF d.confirm_count > 0
                     THEN [d EXCEPT !.confirm_count = d.confirm_count - 1]
                     ELSE d,
           calls |-> << >> ]

\* confirmation layer: the new decoder fields and the callback invocations
\* (in order) made at this boundary
Confirm(d, r, cb) ==
    IF r.found = 1
    THEN IF r.code = d.last_code /\ r.inverted = d.last_inverted
         THEN LET c == d.confirm_count + 1
              IN  [ dec   |-> [d EXCEPT !.confirm_count = c],
                    calls |-> (IF c = 2 /\ cb # NULL
                               THEN << <<r.code, r.inverted>> >> ELSE << >>)
                              \o
                              (IF c > 2 /\ cb # NULL
                               THEN << <<r.code, r.inverted>> >> ELSE << >>) ]
         ELSE [ dec   |-> [d EXCEPT !.last_code = r.code,
                                    !.last_inverted = r.inverted,
                                    !.confirm_count = 1],
                calls |-> << >> ]
    ELSE [ dec   |-> IF d.confirm_count > 0
                     THEN [d EXCEPT !.confirm_count = d.confirm_count - 1]
                     ELSE d,
           calls |-> << >> ]

\* the whole bit-boundary block for sliced bit `bit`
BitStep(d, bit, cb) ==
    LET w == ShiftWindows(d, bit)
        r == DecodeWindows(w.window_a, w.window_b)
        k == Confirm(w, r, cb)
    IN  [ dec |-> k.dec, found |-> r.found, code |-> r.code,
          inverted |-> r.inverted, calls |-> k.calls ]

(***************************************************************************)
(* One sample of dcs_decoder_process_samples.                              *)
(*                                                                         *)
(* bit_phase and samples_per_bit are held exactly, in units of 1/13440 of  *)
(* a sample: sampleRate / 134.4 is 100 * sampleRate units, and 0.5 and     *)
(* 0.05 of it are whole numbers of units.  The value `filtered` computed   *)
(* by the low-pass line of the loop is the input of a step: for a given    *)
(* lp_state that line maps the samples one-to-one onto the filtered        *)
(* values (lp_alpha > 0), so ranging over filtered values ranges over      *)
(* input samples.                                                          *)
(***************************************************************************)
PHASE_SCALE == 13440

\* the filter and bit-clock fields dcs_decoder_new sets for a sample rate
ClockNew(sampleRate) ==
    [ lp_state        |-> 0,
      lp_prev         |-> 0,
      samples_per_bit |-> 100 * sampleRate,
      bit_phase       |-> 0,
      bit_accum       |-> 0 ]

\* the zero-crossing test
ZeroCrossing(lp_prev, filtered) == (lp_prev < 0) # (filtered < 0)

\* the nudge with the step subtracted in both halves of the bit
Nudge_AlwaysBack(bit_phase, samples_per_bit) ==
    bit_phase - (samples_per_bit \div 20)

\* the clock-recovery nudge applied at a zero crossing
Nudge(bit_phase, samples_per_bit) ==
    LET half == samples_per_bit \div 2
    IN  IF bit_phase < half
        THEN bit_phase + (samples_per_bit \div 20)
        ELSE bit_phase - (samples_per_bit \div 20)

\* the loop body for one sample whose filtered value is `filtered`
SampleStep(c, d, filtered, cb) ==
    LET crossing == ZeroCrossing(c.lp_prev, filtered)
        nudged   == IF crossing THEN Nudge(c.bit_phase, c.samples_per_bit)
                                ELSE c.bit_phase
        accum    == c.bit_accum + filtered
        advanced == nudged + PHASE_SCALE
        boundary == advanced >= c.samples_per_bit
        bit      == IF accum > 0 THEN 1 ELSE 0
        b        == IF boundary THEN BitStep(d, bit, cb)
                    ELSE [ dec |-> d, found |-> 0, code |-> 0, inverted |-> 0,
                           calls |-> << >> ]
    IN  [ clk |-> [c EXCEPT
                     !.lp_state  = filtered,
                     !.lp_prev   = filtered,
                     !.bit_phase = IF boundary
                                   THEN advanced - c.samples_per_bit
                                   ELSE advanced,
                     !.bit_accum = IF boundary THEN 0 ELSE accum],
          dec |-> b.dec,
          boundary |-> boundary, bit |-> IF boundary THEN bit ELSE 0,
          found |-> b.found, code |-> b.code, inverted |-> b.inverted,
          calls |-> b.calls,
          crossing |-> crossing, before |-> c.bit_phase,
          nudged |-> nudged, advanced |-> advanced ]

(***************************************************************************)
(* The squelch block (dcs_squelch_ff_impl).                                *)
(***************************************************************************)
DCS_CALLBACK == "dcs_callback"

\* the fields the constructor sets; tail_ms is a whole number of ms here
SquelchNew(sample_rate, target_code, target_inverted, tail_ms) ==
    [ d_target_code      |-> target_code,
      d_target_inverted  |-> target_inverted,
      d_squelch_open     |-> FALSE,
      d_tail_samples     |-> 0,
      d_tail_samples_max |-> (sample_rate * tail_ms) \div 1000 ]

dcs_callback(g, code, inverted) ==
    IF code = g.d_target_code /\ (inverted # 0) = g.d_target_inverted
    THEN [g EXCEPT !.d_squelch_open = TRUE,
                   !.d_tail_samples = g.d_tail_samples_max]
    ELSE g

\* the callback invocations of one sample, in order
RECURSIVE ApplyCalls(_, _)
ApplyCalls(g, calls) ==
    IF calls = << >> THEN g
    ELSE ApplyCalls(dcs_callback(g, calls[1][1], calls[1][2]), Tail(calls))


\* the body of the gating loop: what out[i] is, and the fields after it
GateSample(g) ==
    IF g.d_squelch_open
    THEN [ sq  |-> IF g.d_tail_samples > 0
                   THEN [g EXCEPT
                           !.d_tail_samples = g.d_tail_samples - 1,
                           !.d_squelch_open = (g.d_tail_samples - 1 # 0)]
                   ELSE g,
           out |-> "in" ]
    ELSE [ sq |-> g, out |-> "zero" ]

\* the gating loop over the remaining items of a buffer
RECURSIVE GateLoop(_, _, _)
GateLoop(g, items, out) ==
    IF items = 0 THEN [ sq |-> g, out |-> out ]
    ELSE LET r == GateSample(g)
         IN  GateLoop(r.sq, items - 1, Append(out, r.out))

(***************************************************************************)
(* Transmitter: a 23-bit frame (systematic codeword of a 12-bit message,   *)
(* XOR a fixed error pattern) repeated, MSB- or LSB-first, either polarity.*)
(***************************************************************************)
TxMessages == {0, 19, 1165}
TxErrors == {0, 1049216}

GolayEncode(msg) == BitOr(Shl(msg, 11), golay_syndrome(Shl(msg, 11)))

TxFrame(t) == BitXor(GolayEncode(t.msg), t.err)

\* the sliced bit at boundary number k (1-based)
TxBit(t, k) ==
    LET pos == (k - 1) % 23
        b == IF t.lsb_first THEN Shr(t.frame, pos) % 2
                            ELSE Shr(t.frame, 22 - pos) % 2
    IN  IF t.inverted THEN 1 - b ELSE b

(***************************************************************************)
(* State.                                                                  *)
(***************************************************************************)
VARIABLES
    dec,        \* the decoder fed the transmitted bits
    callback,   \* its callback binding
    obs,        \* locals and callback invocations of the latest boundary
    twin,       \* a second fresh decoder fed the complemented bits
    twin_obs,   \* the same record for the twin
    hist,       \* what happened before the latest boundary
    tx,         \* the transmitter
    n,          \* bit boundaries processed so far
    syndrome_tbl, \* the table while build_syndrome_table fills it
    idx,        \* error patterns the loops of build_syndrome_table have visited
    look,       \* the latest lookup made in the static tables
    clk,        \* the decoder's filter and bit-clock fields
    sq,         \* the fields of the squelch block
    io,         \* the latest operation: its arguments, outputs and locals
    gh,         \* what the gate has seen before and during that operation
    cnt         \* input samples consumed so far

tblvars == <<syndrome_tbl, idx, look>>
gatevars == <<clk, sq, io, gh, cnt>>
vars == <<dec, callback, obs, twin, twin_obs, hist, tx, n,
          syndrome_tbl, idx, look, clk, sq, io, gh, cnt>>

NoIo == [ op |-> "none", first |-> 0, out |-> << >>, events |-> << >>,
          decodes |-> << >>, code |-> 0, inverted |-> FALSE,
          was_open |-> FALSE,
          crossing |-> FALSE, before |-> 0, nudged |-> 0, advanced |-> 0,
          boundary |-> FALSE ]

NoGh == [ prev_hit |-> 0, last_hit |-> 0, changes |-> 0, run |-> 0,
          fresh |-> FALSE ]

\* a decoder on its own: no squelch block, no sample consumed
GateIdle ==
    /\ clk = ClockNew(16000)
    /\ sq = [ d_target_code |-> 0, d_target_inverted |-> FALSE,
              d_squelch_open |-> FALSE, d_tail_samples |-> 0,
              d_tail_samples_max |-> 0 ]
    /\ io = NoIo
    /\ gh = NoGh
    /\ cnt = 0

NoLook == [ kind |-> "none", msg |-> 0, e |-> 0, word |-> 0, s |-> 0,
            entry |-> 0, corrected |-> 0, x |-> 0, valid |-> 0 ]

\* the static tables of a constructed decoder
TablesBuilt ==
    /\ syndrome_tbl = build_syndrome_table
    /\ idx = Len(ErrorPatterns)
    /\ look = NoLook

NoObs == [found |-> 0, code |-> 0, inverted |-> 0, calls |-> << >>]

Init ==
    /\ dec = dcs_decoder_new
    /\ twin = dcs_decoder_new
    /\ callback = NULL
    /\ obs = NoObs
    /\ twin_obs = NoObs
    /\ hist = [ prev_found |-> 0, prev_code |-> 0, prev_inverted |-> 0,
                ev_n |-> 0, ev_code |-> 0, ev_inverted |-> 0,
                first_n |-> 0, first_code |-> 0, first_inverted |-> 0,
                always_bound |-> TRUE ]
    /\ n = 0
    /\ TablesBuilt
    /\ GateIdle
    /\ \E m \in TxMessages, e \in TxErrors, l \in BOOLEAN, i \in BOOLEAN :
          tx = [ msg |-> m, err |-> e, lsb_first |-> l, inverted |-> i,
                 frame |-> TxFrame([msg |-> m, err |-> e]) ]

dcs_decoder_set_callback(cb) ==
    /\ callback' = cb
    /\ UNCHANGED <<dec, obs, twin, twin_obs, hist, tx, n>>
    /\ UNCHANGED tblvars
    /\ UNCHANGED gatevars

\* record of everything up to and including the boundary described by obs
NextHist(h, o, k, cb) ==
    [ prev_found |-> o.found, prev_code |-> o.code,
      prev_inverted |-> o.inverted,
      ev_n |-> IF o.calls # << >> THEN k ELSE h.ev_n,
      ev_code |-> IF o.calls # << >> THEN o.calls[1][1] ELSE h.ev_code,
      ev_inverted |-> IF o.calls # << >> THEN o.calls[1][2] ELSE h.ev_inverted,
      first_n |-> IF h.first_n = 0 /\ o.calls # << >> THEN k ELSE h.first_n,
      first_code |-> IF h.first_n = 0 /\ o.calls # << >>
                     THEN o.calls[1][1] ELSE h.first_code,
      first_inverted |-> IF h.first_n = 0 /\ o.calls # << >>
                         THEN o.calls[1][2] ELSE h.first_inverted,
      always_bound |-> h.always_bound /\ cb # NULL ]

\* dcs_decoder_process_samples over the samples of one bit period
ProcessBit ==
    /\ n < MaxBits
    /\ \E bit \in {TxBit(tx, n + 1)} :
       \E s \in {BitStep(dec, bit, callback)},
          t \in {BitStep(twin, 1 - bit, callback)} :
           /\ dec' = s.dec
           /\ obs' = [found |-> s.found, code |-> s.code,
                      inverted |-> s.inverted, calls |-> s.calls]
           /\ twin' = t.dec
           /\ twin_obs' = [found |-> t.found, code |-> t.code,
                           inverted |-> t.inverted, calls |-> t.calls]
    /\ hist' = NextHist(hist, obs, n, callback)
    /\ n' = n + 1
    /\ UNCHANGED <<callback, tx>>
    /\ UNCHANGED tblvars
    /\ UNCHANGED gatevars

Next ==
    \/ ProcessBit
    \/ \E cb \in {NULL, SINK} : dcs_decoder_set_callback(cb)

Spec == Init /\ [][Next]_vars

(***************************************************************************)
(* The static tables on their own: build_syndrome_table run store by       *)
(* store, then lookups in the finished table and in DCS_VALID_CODES.       *)
(***************************************************************************)
\* largest argument handed to is_valid_dcs_code, besides the wrapped ones
MaxCodeArg == 1023

\* 12-bit messages whose codewords are looked up
GolayMessages == {0, 1, 19, 1165, 2730, 4095}

\* arguments of is_valid_dcs_code: a range, and values whose low 16 bits
\* are those of 65535, 19 and 23
CodeArgs == (0..MaxCodeArg) \cup {-1, 65535, 65555, 65559, -65517}

\* every 23-bit pattern of Hamming weight at most 3
LowWeightPatterns ==
    {0}
    \cup { 2^i : i \in 0..22 }
    \cup { 2^p[1] + 2^p[2] :
             p \in { q \in (0..22) \X (0..22) : q[1] < q[2] } }
    \cup { 2^p[1] + 2^p[2] + 2^p[3] :
             p \in { q \in (0..22) \X (0..22) \X (0..22) :
                       q[1] < q[2] /\ q[2] < q[3] } }

RECURSIVE Weight(_)
Weight(w) == IF w = 0 THEN 0 ELSE (w % 2) + Weight(w \div 2)

\* msg(x) * g(x) over GF(2): the codewords of the code generated by
\* GOLAY_POLY are exactly these products
RECURSIVE GolayProduct(_, _)
GolayProduct(msg, i) ==
    IF i > 11 THEN 0
    ELSE BitXor(IF Shr(msg, i) % 2 = 1 THEN Shl(GOLAY_POLY, i) ELSE 0,
                GolayProduct(msg, i + 1))

GolayCodeword(msg) == GolayProduct(msg, 0)

\* the decoder's tables before the first loop of build_syndrome_table
TableInit ==
    /\ syndrome_tbl = [[s \in 0..2047 |-> GOLAY_SYN_INVALID] EXCEPT ![0] = 0]
    /\ idx = 0
    /\ look = NoLook
    /\ dec = dcs_decoder_new
    /\ twin = dcs_decoder_new
    /\ callback = NULL
    /\ obs = NoObs
    /\ twin_obs = NoObs
    /\ hist = [ prev_found |-> 0, prev_code |-> 0, prev_inverted |-> 0,
                ev_n |-> 0, ev_code |-> 0, ev_inverted |-> 0,
                first_n |-> 0, first_code |-> 0, first_inverted |-> 0,
                always_bound |-> TRUE ]
    /\ n = 0
    /\ tx = [ msg |-> 0, err |-> 0, lsb_first |-> FALSE, inverted |-> FALSE,
              frame |-> 0 ]
    /\ GateIdle

\* one iteration of the loops of build_syndrome_table
StoreStep ==
    /\ idx < Len(ErrorPatterns)
    /\ look = NoLook
    /\ syndrome_tbl' = StoreIfInvalid(syndrome_tbl, ErrorPatterns[idx + 1])
    /\ idx' = idx + 1
    /\ UNCHANGED <<look, dec, callback, obs, twin, twin_obs, hist, tx, n>>
    /\ UNCHANGED gatevars

\* the table lookup of try_decode_word on a codeword with errors (lookups
\* do not change the tables, so a run makes one)
CorrectWord ==
    /\ idx = Len(ErrorPatterns)
    /\ look = NoLook
    /\ \E m \in GolayMessages, e \in LowWeightPatterns :
       \E w \in {BitXor(GolayCodeword(m), e)} :
       \E s \in {golay_syndrome(w)} :
          look' = [ kind |-> "word", msg |-> m, e |-> e, word |-> w, s |-> s,
                    entry |-> syndrome_tbl[s],
                    corrected |-> IF syndrome_tbl[s] = GOLAY_SYN_INVALID THEN -1
                                  ELSE BitXor(w, syndrome_tbl[s]),
                    x |-> 0, valid |-> 0 ]
    /\ UNCHANGED <<syndrome_tbl, idx, dec, callback, obs, twin, twin_obs, hist, tx, n>>
    /\ UNCHANGED gatevars

\* one call of is_valid_dcs_code (DCS_VALID_CODES is static: the call does
\* not need the syndrome table)
CheckCode ==
    /\ idx \in {0, Len(ErrorPatterns)}
    /\ look = NoLook
    /\ \E x \in CodeArgs :
          look' = [NoLook EXCEPT !.kind = "code", !.x = x,
                                 !.valid = is_valid_dcs_code(x)]
    /\ UNCHANGED <<syndrome_tbl, idx, dec, callback, obs, twin, twin_obs, hist, tx, n>>
    /\ UNCHANGED gatevars

TableNext == StoreStep \/ CorrectWord \/ CheckCode

TableSpec == TableInit /\ [][TableNext]_vars

(***************************************************************************)
(* The decoder fed one sample per call, with any filtered values.          *)
(***************************************************************************)
\* samples fed in one run
MaxClockSamples == 14

\* sample rates of the runs: samples_per_bit is about 2.0015, 2.5 and 5
ClockRates == {269, 336, 672}

FilteredValues == {-1, 1}

ClockInit ==
    /\ \E fs \in ClockRates : clk = ClockNew(fs)
    /\ dec = dcs_decoder_new
    /\ callback \in {NULL, SINK}
    /\ obs = NoObs
    /\ n = 0
    /\ cnt = 0
    /\ io = NoIo
    /\ gh = NoGh
    /\ sq = [ d_target_code |-> 0, d_target_inverted |-> FALSE,
              d_squelch_open |-> FALSE, d_tail_samples |-> 0,
              d_tail_samples_max |-> 0 ]
    /\ twin = dcs_decoder_new
    /\ twin_obs = NoObs
    /\ hist = [ prev_found |-> 0, prev_code |-> 0, prev_inverted |-> 0,
                ev_n |-> 0, ev_code |-> 0, ev_inverted |-> 0,
                first_n |-> 0, first_code |-> 0, first_inverted |-> 0,
                always_bound |-> TRUE ]
    /\ tx = [ msg |-> 0, err |-> 0, lsb_first |-> FALSE, inverted |-> FALSE,
              frame |-> 0 ]
    /\ TablesBuilt

\* dcs_decoder_process_samples called with one sample
ProcessSample ==
    /\ cnt < MaxClockSamples
    /\ \E filtered \in FilteredValues :
       \E r \in {SampleStep(clk, dec, filtered, callback)} :
          /\ clk' = r.clk
          /\ dec' = r.dec
          /\ obs' = IF r.boundary
                    THEN [found |-> r.found, code |-> r.code,
                          inverted |-> r.inverted, calls |-> r.calls]
                    ELSE obs
          /\ n' = IF r.boundary THEN n + 1 ELSE n
          /\ io' = [NoIo EXCEPT !.op = "sample", !.first = cnt + 1,
                                !.crossing = r.crossing, !.before = r.before,
                                !.nudged = r.nudged, !.advanced = r.advanced,
                                !.boundary = r.boundary]
    /\ cnt' = cnt + 1
    /\ UNCHANGED <<callback, twin, twin_obs, hist, tx, sq, gh>>
    /\ UNCHANGED tblvars

ClockNext == ProcessSample

ClockSpec == ClockInit /\ [][ClockNext]_vars

(***************************************************************************)
(* The squelch block fed the NRZ waveform of the transmitter in buffers of *)
(* any length, with the target changed at any time.                        *)
(***************************************************************************)
\* samples fed in one run
MaxGateSamples == 44
\* longest buffer handed to work()
MaxBuf == 3
\* calls of set_target_code in one run
MaxRetargets == 1

GateRates == {269}
TailMs == {0, 12}
TargetPairs == { <<436, FALSE>>, <<19, FALSE>> }

\* filtered value of sample number k (1-based): the transmitter's bit at
\* 134.4 bits per second, sampled at t.fs, as +1 / -1
GateFiltered(t, k) ==
    IF TxBit(t, (((k - 1) * 672) \div (5 * t.fs)) + 1) = 1 THEN 1 ELSE -1

IsTarget(g, code, inverted) ==
    code = g.d_target_code /\ (inverted # 0) = g.d_target_inverted

\* the block and the record of the pass after sample k, whose step gave r
PassSample(st, r, k) ==
    [ clk |-> r.clk,
      dec |-> r.dec,
      sq  |-> ApplyCalls(st.sq, r.calls),
      events |-> st.events \o
          [ i \in 1..Len(r.calls) |->
              [ at |-> k, code |-> r.calls[i][1], inverted |-> r.calls[i][2],
                hit |-> IsTarget(st.sq, r.calls[i][1], r.calls[i][2]) ] ],
      decodes |-> IF r.boundary
                  THEN Append(st.decodes,
                              [ at |-> k, found |-> r.found, code |-> r.code,
                                inverted |-> r.inverted ])
                  ELSE st.decodes ]

\* dcs_decoder_process_samples over samples k..last of the stream, with the
\* callback acting on the block's fields; events and decodes are the
\* callback invocations and the bit-boundary results, with their positions
RECURSIVE DecoderPass(_, _, _, _)
DecoderPass(st, t, k, last) ==
    IF k > last THEN st
    ELSE DecoderPass(
             PassSample(st,
                        SampleStep(st.clk, st.dec, GateFiltered(t, k),
                                   DCS_CALLBACK),
                        k),
             t, k + 1, last)

\* consecutive boundaries decoding the target pair, counted up to 2
RECURSIVE RunAfter(_, _, _)
RunAfter(h, g, decodes) ==
    IF decodes = << >> THEN h
    ELSE LET m == decodes[1].found = 1
                    /\ IsTarget(g, decodes[1].code, decodes[1].inverted)
             c == IF m THEN (IF h.run >= 2 THEN 2 ELSE h.run + 1) ELSE 0
         IN  RunAfter([h EXCEPT !.run = c, !.fresh = h.fresh \/ c >= 2],
                      g, Tail(decodes))

LastHit(events, before) ==
    LET hits == { i \in 1..Len(events) : events[i].hit }
    IN  IF hits = {} THEN before
        ELSE events[CHOOSE i \in hits : \A j \in hits : j <= i].at

GateInit ==
    /\ \E fs \in GateRates, ms \in TailMs, tp \in TargetPairs :
          /\ clk = ClockNew(fs)
          /\ sq = SquelchNew(fs, tp[1], tp[2], ms)
          /\ tx = [ msg |-> 1165, err |-> 0, lsb_first |-> TRUE,
                    inverted |-> FALSE, frame |-> TxFrame([msg |-> 1165, err |-> 0]),
                    fs |-> fs ]
    /\ dec = dcs_decoder_new
    /\ callback = DCS_CALLBACK
    /\ obs = NoObs
    /\ n = 0
    /\ cnt = 0
    /\ io = NoIo
    /\ gh = NoGh
    /\ twin = dcs_decoder_new
    /\ twin_obs = NoObs
    /\ hist = [ prev_found |-> 0, prev_code |-> 0, prev_inverted |-> 0,
                ev_n |-> 0, ev_code |-> 0, ev_inverted |-> 0,
                first_n |-> 0, first_code |-> 0, first_inverted |-> 0,
                always_bound |-> TRUE ]
    /\ TablesBuilt

\* work() on the next noutput_items samples of the stream
work(noutput_items) ==
    /\ cnt + noutput_items <= MaxGateSamples
    /\ \E p \in { DecoderPass([ clk |-> clk, dec |-> dec, sq |-> sq,
                                 events |-> << >>, decodes |-> << >> ],
                               tx, cnt + 1, cnt + noutput_items) } :
       \E q \in { GateLoop(p.sq, noutput_items, << >>) } :
          /\ clk' = p.clk
          /\ dec' = p.dec
          /\ sq' = q.sq
          /\ io' = [NoIo EXCEPT !.op = "work", !.first = cnt + 1,
                                !.out = q.out, !.events = p.events,
                                !.decodes = p.decodes,
                                !.was_open = sq.d_squelch_open]
          /\ gh' = RunAfter([gh EXCEPT !.prev_hit = gh.last_hit,
                                       !.last_hit = LastHit(p.events, gh.last_hit)],
                            sq, p.decodes)
    /\ cnt' = cnt + noutput_items
    /\ UNCHANGED <<callback, obs, n, twin, twin_obs, hist, tx>>
    /\ UNCHANGED tblvars

\* set_target_code with the decoder's confirmation state reset as well
set_target_code_ResetsConfirmation(code, inverted) ==
    /\ gh.changes < MaxRetargets
    /\ sq' = [sq EXCEPT !.d_target_code = code,
                        !.d_target_inverted = inverted,
                        !.d_squelch_open = FALSE,
                        !.d_tail_samples = 0]
    /\ dec' = [dec EXCEPT !.last_code = -1, !.last_inverted = 0,
                          !.confirm_count = 0]
    /\ io' = [NoIo EXCEPT !.op = "set_target_code", !.first = cnt + 1,
                          !.code = code, !.inverted = inverted,
                          !.was_open = sq.d_squelch_open]
    /\ gh' = [NoGh EXCEPT !.changes = gh.changes + 1]
    /\ UNCHANGED <<clk, callback, cnt, obs, n, twin, twin_obs, hist, tx>>
    /\ UNCHANGED tblvars

set_target_code(code, inverted) ==
    /\ gh.changes < MaxRetargets
    /\ sq' = [sq EXCEPT !.d_target_code = code,
                        !.d_target_inverted = inverted,
                        !.d_squelch_open = FALSE,
                        !.d_tail_samples = 0]
    /\ io' = [NoIo EXCEPT !.op = "set_target_code", !.first = cnt + 1,
                          !.code = code, !.inverted = inverted,
                          !.was_open = sq.d_squelch_open]
    /\ gh' = [NoGh EXCEPT !.changes = gh.changes + 1]
    /\ UNCHANGED <<clk, dec, callback, cnt, obs, n, twin, twin_obs, hist, tx>>
    /\ UNCHANGED tblvars

is_open == sq.d_squelch_open

GateNext ==
    \/ \E noutput_items \in 1..MaxBuf : work(noutput_items)
    \/ \E tp \in TargetPairs : set_target_code(tp[1], tp[2])

GateSpec == GateInit /\ [][GateNext]_vars

(***************************************************************************)
(* Properties.                                                             *)
(***************************************************************************)
RecognizedCodes == {DCS_VALID_CODES[i] : i \in 1..DCS_NUM_CODES}

Delivered == obs.calls # << >>

C2_Step ==
    n' = n + 1 =>
        \/ /\ obs'.found = 0
           /\ dec'.last_code = dec.last_code
           /\ dec'.last_inverted = dec.last_inverted
           /\ dec'.confirm_count =
                 (IF dec.confirm_count - 1 > 0 THEN dec.confirm_count - 1 ELSE 0)
        \/ /\ obs'.found = 1
           /\ <<obs'.code, obs'.inverted>> # <<dec.last_code, dec.last_inverted>>
           /\ dec'.last_code = obs'.code
           /\ dec'.last_inverted = obs'.inverted
           /\ dec'.confirm_count = 1
        \/ /\ obs'.found = 1
           /\ <<obs'.code, obs'.inverted>> = <<dec.last_code, dec.last_inverted>>
           /\ dec'.last_code = dec.last_code
           /\ dec'.last_inverted = dec.last_inverted
           /\ dec'.confirm_count = dec.confirm_count + 1

\* C2: the confirmation state starts at (-1, 0, 0); a boundary without a
\* valid decode keeps the pair and lowers the counter to max(counter-1, 0);
\* a valid decode that differs from the pair stores it with counter 1; a
\* valid decode equal to the pair keeps it and raises the counter by one;
\* the counter is never negative.
C2_ConfirmationTransitions ==
    /\ (dec.last_code = -1 /\ dec.last_inverted = 0 /\ dec.confirm_count = 0)
    /\ [](dec.confirm_count >= 0)
    /\ [][C2_Step]_vars

C2_Witness ==
    /\ obs.found = 0
    /\ hist.prev_found = 1
    /\ dec.confirm_count = 1
    /\ dec.last_code = hist.prev_code

\* C3: every delivered event carries a member of the recognized-code table
\* (so a value in 0..511 whose data bits 11..9 are zero), and its code and
\* polarity are the decoder's last_code and last_inverted at delivery.
C3_OnlyRecognizedCodes ==
    \A i \in 1..Len(obs.calls) :
        /\ obs.calls[i][1] \in RecognizedCodes
        /\ obs.calls[i][1] \in 0..511
        /\ BitAnd(obs.calls[i][1], 3584) = 0
        /\ obs.calls[i][1] = dec.last_code
        /\ obs.calls[i][2] = dec.last_inverted

C3_Witness ==
    /\ Delivered
    /\ obs.calls[1][1] \in RecognizedCodes
    /\ dec.last_code = obs.calls[1][1]

\* the transmitter repeats the error-free codeword of a recognized code,
\* MSB-first, true polarity, and the sink has been bound all along
CleanRecognizedMsbFirst ==
    /\ tx.msg \in RecognizedCodes
    /\ tx.err = 0
    /\ ~tx.lsb_first
    /\ ~tx.inverted
    /\ hist.always_bound

\* boundary number of the first event of the run (0: none yet), and its pair
FirstEventAt ==
    IF hist.first_n # 0 THEN hist.first_n ELSE IF Delivered THEN n ELSE 0
FirstEvent ==
    IF hist.first_n # 0 THEN <<hist.first_code, hist.first_inverted>>
    ELSE IF Delivered THEN obs.calls[1] ELSE << >>

\* C4: with the error-free codeword of a recognized code C repeated
\* MSB-first from stream start, the first event is (C, not inverted) and
\* falls between bits 24 and 46, and every boundary after it delivers
\* (C, not inverted) again.
C4_RepeatedCodewordDetected ==
    CleanRecognizedMsbFirst =>
        /\ n >= 46 => /\ FirstEventAt \in 24..46
                      /\ FirstEvent = <<tx.msg, 0>>
        /\ (FirstEventAt # 0 /\ n > FirstEventAt) => obs.calls = << <<tx.msg, 0>> >>

\* C5: the decoder fed the complemented bits delivers, at every boundary,
\* the same codes as the decoder fed the original bits, with the polarity
\* flag flipped.
C5_PolaritySymmetry ==
    /\ Len(twin_obs.calls) = Len(obs.calls)
    /\ \A i \in 1..Len(obs.calls) :
          twin_obs.calls[i] = <<obs.calls[i][1], 1 - obs.calls[i][2]>>

\* every sliced bit so far was 0
Silence == tx.frame = 0 /\ ~tx.inverted

\* C6: while every sliced bit is 0 the callback is never invoked and the
\* confirmation counter stays 0.
C6_SilenceProducesNothing ==
    Silence =>
        /\ obs.calls = << >>
        /\ hist.first_n = 0
        /\ dec.confirm_count = 0
        /\ dec.window_a = 0
        /\ dec.window_b = 0

C6_Witness ==
    /\ Silence
    /\ callback # NULL
    /\ hist.always_bound
    /\ n >= 46

\* the transmitter repeats the error-free codeword of a 12-bit message that
\* is not a recognized code
UnrecognizedPayload ==
    /\ tx.err = 0
    /\ tx.msg \in 0..4095
    /\ tx.msg \notin RecognizedCodes

\* C7: repeating the valid codeword of an unrecognized 12-bit message
\* delivers no event, whatever the length of the stream.
C7_UnrecognizedPayloadSilent ==
    UnrecognizedPayload => (obs.calls = << >> /\ hist.first_n = 0)

\* the event of the latest boundary carries another pair than the event before it
CodeChange ==
    /\ Delivered
    /\ hist.ev_n # 0
    /\ obs.calls[1] # <<hist.ev_code, hist.ev_inverted>>

\* C8: an event whose pair differs from the pair of the event before it
\* comes at least two boundaries after that event, and the boundary just
\* before it decoded the new pair.
C8_NoInterleaving ==
    CodeChange =>
        /\ n >= hist.ev_n + 2
        /\ hist.prev_found = 1
        /\ <<hist.prev_code, hist.prev_inverted>> = obs.calls[1]

C8_Witness == CodeChange /\ hist.always_bound

\* the emission rule for one bit boundary processed with a sink bound
C10_Step ==
    (n' = n + 1 /\ callback # NULL) =>
        /\ (obs'.calls # << >>) <=>
              /\ obs'.found = 1
              /\ obs'.code = dec.last_code
              /\ obs'.inverted = dec.last_inverted
              /\ dec.confirm_count + 1 >= 2
        /\ Len(obs'.calls) <= 1
        /\ \A i \in 1..Len(obs'.calls) :
              obs'.calls[i] = <<obs'.code, obs'.inverted>>

\* C10: with a sink bound, a boundary invokes the callback exactly when its
\* decode is valid, equals the stored pair, and the incremented counter is
\* at least 2; it is invoked at most once, with the decoded pair.
C10_EmissionRule == [][C10_Step]_vars

C10_Witness ==
    /\ Len(obs.calls) = 1
    /\ callback # NULL
    /\ dec.confirm_count = 2

\* the transmitter repeats the error-free codeword of 19 LSB-first, true
\* polarity, and the sink has been bound all along
CleanLsbFirst19 ==
    /\ tx.msg = 19
    /\ tx.err = 0
    /\ tx.lsb_first
    /\ ~tx.inverted
    /\ hist.always_bound

\* C14: with the error-free codeword of 19 repeated LSB-first, a first event
\* is delivered by the end of the second codeword and it is (19, not
\* inverted).
C14_LsbFirstDetected ==
    (CleanLsbFirst19 /\ n >= 46) =>
        /\ FirstEventAt # 0
        /\ FirstEvent = <<19, 0>>

(***************************************************************************)
(* Properties of the static tables (TableSpec).                            *)
(***************************************************************************)
\* C11: for every codeword c of the code generated by 0xC75 and every error
\* pattern e of weight at most 3, the finished table holds e at the syndrome
\* of c XOR e, and XORing that entry into c XOR e gives c back.
C11_GolayCorrection ==
    look.kind = "word" =>
        /\ golay_syndrome(GolayCodeword(look.msg)) = 0
        /\ look.word = BitXor(GolayCodeword(look.msg), look.e)
        /\ look.entry = look.e
        /\ look.corrected = GolayCodeword(look.msg)

C11_Witness ==
    /\ look.kind = "word"
    /\ Weight(look.e) = 3
    /\ look.msg = 1165
    /\ look.corrected = GolayCodeword(1165)

\* every store of build_syndrome_table finds its slot still invalid
C12_Step ==
    idx' = idx + 1 =>
        /\ syndrome_tbl[golay_syndrome(ErrorPatterns[idx'])] = GOLAY_SYN_INVALID
        /\ syndrome_tbl'[golay_syndrome(ErrorPatterns[idx'])] = ErrorPatterns[idx']

TableJustBuilt == idx = Len(ErrorPatterns) /\ look = NoLook

\* C12: when build_syndrome_table returns, no entry is the sentinel, entry 0
\* is the zero pattern, the stored patterns of weight 0, 1, 2, 3 number 1,
\* 23, 253, 1771, and no store was rejected by the first-writer guard.
C12_TableComplete ==
    /\ [](TableJustBuilt =>
            /\ \A s \in 0..2047 : syndrome_tbl[s] # GOLAY_SYN_INVALID
            /\ syndrome_tbl[0] = 0
            /\ Cardinality({s \in 0..2047 : Weight(syndrome_tbl[s]) = 0}) = 1
            /\ Cardinality({s \in 0..2047 : Weight(syndrome_tbl[s]) = 1}) = 23
            /\ Cardinality({s \in 0..2047 : Weight(syndrome_tbl[s]) = 2}) = 253
            /\ Cardinality({s \in 0..2047 : Weight(syndrome_tbl[s]) = 3}) = 1771
            /\ syndrome_tbl = build_syndrome_table)
    /\ [][C12_Step]_vars

C12_Witness ==
    /\ TableJustBuilt
    /\ idx = 2047
    /\ syndrome_tbl[2047] # GOLAY_SYN_INVALID

\* the statement of the claim about the code table, with 23 a member
C13_CodeTableWith23 ==
    /\ DCS_NUM_CODES = 105
    /\ Cardinality(RecognizedCodes) = 105
    /\ RecognizedCodes \subseteq 0..511
    /\ look.kind = "code" =>
          /\ look.x \in {19, 21, 25, 43, 114, 265, 23} => look.valid = 1
          /\ look.x \in {412, 732} => look.valid = 0
          /\ look.valid = 1 <=> look.x \in RecognizedCodes

\* C13 (amended): DCS_VALID_CODES has exactly 105 members, all in [0, 511];
\* 19, 21, 25, 43, 114 and 265 are members and 23, 412 and 732 are not;
\* is_valid_dcs_code(x) returns 1 exactly when the low 16 bits of x are a
\* member (so, for x in 0..65535, exactly for the members), else 0.
C13_CodeTable ==
    /\ DCS_NUM_CODES = 105
    /\ Cardinality(RecognizedCodes) = 105
    /\ RecognizedCodes \subseteq 0..511
    /\ look.kind = "code" =>
          /\ look.valid \in {0, 1}
          /\ look.x \in {19, 21, 25, 43, 114, 265} => look.valid = 1
          /\ look.x \in {23, 412, 732} => look.valid = 0
          /\ look.valid = 1 <=> (look.x % 65536) \in RecognizedCodes
          /\ look.x \in 0..65535 => (look.valid = 1 <=> look.x \in RecognizedCodes)

C13_Witness ==
    /\ look.kind = "code"
    /\ look.x = 265
    /\ look.valid = 1

(***************************************************************************)
(* Properties of the bit clock (ClockSpec).                                *)
(***************************************************************************)
\* C19: with samples_per_bit >= 2, whatever the zero crossings, bit_phase is
\* never negative, is below samples_per_bit + 1 after the per-sample
\* increment, and is in [0, samples_per_bit) when the sample is done, so
\* after each bit-boundary reset: one subtraction restores the range.
C19_BitPhaseRange ==
    clk.samples_per_bit >= 2 * PHASE_SCALE =>
        /\ clk.bit_phase >= 0
        /\ clk.bit_phase < clk.samples_per_bit
        /\ io.op = "sample" =>
              /\ io.before >= 0
              /\ io.nudged >= 0
              /\ io.advanced >= 0
              /\ io.advanced < clk.samples_per_bit + PHASE_SCALE
              /\ io.boundary <=> io.advanced >= clk.samples_per_bit
              /\ io.boundary => clk.bit_phase = io.advanced - clk.samples_per_bit
              /\ ~io.boundary => clk.bit_phase = io.advanced

C19_Witness ==
    /\ clk.samples_per_bit >= 2 * PHASE_SCALE
    /\ io.op = "sample"
    /\ io.boundary
    /\ io.crossing
    /\ io.nudged < io.before
    /\ cnt >= 5

\* samples until the next bit boundary when no further crossing occurs,
\* counting the current one: the increment and the comparison of the loop
RECURSIVE SamplesToBoundary(_, _)
SamplesToBoundary(phase, samples_per_bit) ==
    IF phase + PHASE_SCALE >= samples_per_bit THEN 1
    ELSE 1 + SamplesToBoundary(phase + PHASE_SCALE, samples_per_bit)

\* C20: a zero crossing with bit_phase below half a bit adds 0.05 *
\* samples_per_bit and the next boundary comes later than without the
\* crossing; a crossing at or above half a bit subtracts the step and the
\* next boundary comes earlier.
C20_NudgeDirection ==
    (io.op = "sample" /\ io.crossing) =>
        IF io.before < clk.samples_per_bit \div 2
        THEN /\ io.nudged = io.before + clk.samples_per_bit \div 20
             /\ SamplesToBoundary(io.nudged, clk.samples_per_bit)
                   > SamplesToBoundary(io.before, clk.samples_per_bit)
        ELSE /\ io.nudged = io.before - clk.samples_per_bit \div 20
             /\ SamplesToBoundary(io.nudged, clk.samples_per_bit)
                   < SamplesToBoundary(io.before, clk.samples_per_bit)

(***************************************************************************)
(* The squelch gate.                                                       *)
(***************************************************************************)
\* a target event at or before position pos, fewer than the tail length
\* earlier
HitCovers(pos) ==
    \/ /\ gh.prev_hit > 0
       /\ gh.prev_hit <= pos
       /\ pos - gh.prev_hit < sq.d_tail_samples_max
    \/ \E i \in 1..Len(io.events) :
          /\ io.events[i].hit
          /\ io.events[i].at <= pos
          /\ pos - io.events[i].at < sq.d_tail_samples_max

\* C15: a sample is passed through by work() only if the decoder emitted an
\* event for the target pair at or before that sample's position and fewer
\* than the tail length of samples earlier; everything before the first
\* target detection is output as zero.
C15_CausalGating ==
    io.op = "work" =>
        \A i \in 1..Len(io.out) :
            io.out[i] = "in" => HitCovers(io.first + i - 1)

\* C16: after work() returns, an open gate has a tail counter above zero and
\* was opened by a target event no more than the tail length of input
\* samples ago, so that without a further event it closes within the tail.
C16_TailExpiry ==
    (io.op = "work" /\ sq.d_squelch_open) =>
        /\ sq.d_tail_samples > 0
        /\ gh.last_hit > 0
        /\ cnt - gh.last_hit <= sq.d_tail_samples_max

C17_RetargetStep ==
    io'.op = "set_target_code" =>
        /\ sq'.d_target_code = io'.code
        /\ sq'.d_target_inverted = io'.inverted
        /\ sq'.d_squelch_open = FALSE
        /\ sq'.d_tail_samples = 0
        /\ sq'.d_tail_samples_max = sq.d_tail_samples_max
        /\ clk' = clk
        /\ dec' = dec
        /\ callback' = callback
        /\ syndrome_tbl' = syndrome_tbl

\* C17: set_target_code(code, inverted) sets the target pair, closes the
\* gate, zeroes the tail counter and leaves the decoder's filter state, bit
\* phase, accumulator, windows, last_code, last_inverted, confirmation
\* counter and callback binding unchanged.
C17_RetargetFrame == [][C17_RetargetStep]_vars

\* set_target_code has just closed an open gate while the decoder was in
\* the middle of a bit and held a confirmed code
C17_Witness ==
    /\ io.op = "set_target_code"
    /\ io.was_open
    /\ ~sq.d_squelch_open
    /\ dec.confirm_count = 2
    /\ clk.bit_phase # 0

\* C18: after set_target_code(c, p) the gate is open only once two
\* consecutive bit boundaries after the change have decoded (c, p).
C18_FreshConfirmation ==
    (gh.changes > 0 /\ sq.d_squelch_open) => gh.fresh

(***************************************************************************)
(* The two windows.                                                        *)
(***************************************************************************)
\* bit i of w moved to bit 22 - i, for the low 23 bits of w
RECURSIVE Reverse23From(_, _)
Reverse23From(w, i) ==
    IF i > 22 THEN 0
    ELSE ((Shr(w, i) % 2) * (2 ^ (22 - i))) + Reverse23From(w, i + 1)

Reverse23(w) == Reverse23From(w, 0)

Mirrored(d) ==
    /\ d.window_a \in 0..MASK23
    /\ d.window_b \in 0..MASK23
    /\ d.window_a = Reverse23(d.window_b)

\* C22: after any number of bit boundaries from a fresh decoder, window_a
\* and window_b both fit in 23 bits and window_a is the 23-bit bit-reversal
\* of window_b.
C22_WindowMirror == Mirrored(dec) /\ Mirrored(twin)

\* more than 23 bits have gone in, ones have been shifted out of both
\* windows, and the windows differ
C22_Witness ==
    /\ n > 30
    /\ dec.window_a # dec.window_b
    /\ dec.window_b > 4194304
    /\ dec.window_a % 2 = 1
    /\ Mirrored(dec)

(***************************************************************************)
(* The same samples handed to work() in one buffer and one at a time.      *)
(***************************************************************************)
\* the gating loop of work() after its decoder pass p, appended to out
GateAfterPass(p, noutput_items, out) ==
    [ clk |-> p.clk, dec |-> p.dec,
      sq |-> GateLoop(p.sq, noutput_items, << >>).sq,
      out |-> out \o GateLoop(p.sq, noutput_items, << >>).out ]

\* one call of work() on samples first .. first + noutput_items - 1 from
\* the block b (its clock, decoder, gate fields and the output so far)
WorkCall(b, t, first, noutput_items) ==
    GateAfterPass(DecoderPass([ clk |-> b.clk, dec |-> b.dec, sq |-> b.sq,
                                events |-> << >>, decodes |-> << >> ],
                              t, first, first + noutput_items - 1),
                  noutput_items, b.out)

\* the same samples in calls of one sample each
RECURSIVE WorkPerSample(_, _, _, _)
WorkPerSample(b, t, first, items) ==
    IF items = 0 THEN b
    ELSE WorkPerSample(WorkCall(b, t, first, 1), t, first + 1, items - 1)

SameGate(b, g, out) ==
    /\ b.out = out
    /\ b.sq.d_squelch_open = g.d_squelch_open
    /\ b.sq.d_tail_samples = g.d_tail_samples

C21_Step ==
    io'.op = "work" =>
        SameGate(WorkPerSample([ clk |-> clk, dec |-> dec, sq |-> sq,
                                 out |-> << >> ],
                               tx, cnt + 1, cnt' - cnt),
                 sq', io'.out)

\* C21: whatever the buffers before it, a work() call on a buffer of any
\* length leaves the same output samples and the same (squelch_open, tail
\* counter) as the same samples processed one per work() call.
C21_BufferIndependence == [][C21_Step]_vars

====
